---- MODULE Spec2Model ----
(***************************************************************************)
(* Model of src/get_performance.py: the feature-set predicates built by    *)
(* predict, the evaluation with its precondition checks, the result cache  *)
(* of single, and the batch drivers discrete, single_all_features and all. *)
(*                                                                         *)
(* A filename is a sequence of one-character strings, so that startswith,  *)
(* `in` on a list and the substring test are computed as Python computes   *)
(* them.  The filesystem under /data/s1620444 is the record `disk`.        *)
(***************************************************************************)
EXTENDS Integers, Sequences, FiniteSets, TLC

VARIABLES
    disk,    \* the filesystem: directories, feature files, samples.pkl, artifacts
    pc,      \* position of the command that is running ("idle" between commands)
    args,    \* the arguments of the command under study
    log,     \* one record per call of single made by a batch driver, in call order
    last,    \* what the last finished command (or predicate application) did
    units,   \* all: the work units of the concurrent executor
    disk0,   \* all: the filesystem when the run started
    npredict, \* how many times predict ran for the key under study
    iter     \* discrete: the positions of its two loops

vars == <<disk, pc, args, log, last, units, disk0, npredict, iter>>

----------------------------------------------------------------------------
(* Bounds of the model *)

\* longest filename of the predicate check, in fragments
MaxFrags == 2
\* how many times predict may run for the key under study
MaxPredict == 3
\* how many network directories exist when discrete starts
MaxPopulated == 1
\* how many network directories exist when all starts
MaxData == 2
\* the processors of the machine: the workers that n_jobs = -1 stands for
NumCpus == 1
\* rows of every well-formed array and of the label vector
NumSamples == 4

----------------------------------------------------------------------------
(* Filenames *)

na == <<"n", "a">>
q100 == <<"_", "q", "1", "0", "0">>
npy == <<".", "n", "p", "y">>
aa_npy == <<"a", "a">> \o npy
cn_npy == <<"c", "n">> \o npy
jc_npy == <<"j", "c">> \o npy
pa_npy == <<"p", "a">> \o npy
na_x_npy == na \o <<"_", "x">> \o npy
na_q100_npy == na \o q100 \o npy
x_q100_npy == <<"x">> \o q100 \o npy

\* the list literal ['aa.npy', 'cn.npy', 'jc.npy', 'pa.npy']
static == <<aa_npy, cn_npy, jc_npy, pa_npy>>

\* x.startswith(prefix)
startswith(x, prefix) ==
    /\ Len(x) >= Len(prefix)
    /\ SubSeq(x, 1, Len(prefix)) = prefix

\* sub in x, for strings
contains(sub, x) ==
    \E i \in 0..(Len(x) - Len(sub)) : SubSeq(x, i + 1, i + Len(sub)) = sub

\* x in lst, for a list
inlist(x, lst) == \E i \in 1..Len(lst) : lst[i] = x

FeatureSets == <<"I", "II-A", "II-B", "III-A", "III-B", "I+II-A+III-A">>

\* the if/elif chain of predict reaches its else branch
NotRecognized(feature_set) == \A i \in 1..Len(FeatureSets) : FeatureSets[i] # feature_set

checkIIIB_or(x) == startswith(x, na) \/ contains(q100, x)

checkIIIB(x) == startswith(x, na) /\ contains(q100, x)

checkAll(x) == startswith(x, na) \/ inlist(x, static) \/ ~startswith(x, na)

\* the predicate `check` that predict defines for a recognized feature_set
check(feature_set, x) ==
    IF feature_set = "I" THEN inlist(x, static)
    ELSE IF feature_set = "II-A" THEN ~startswith(x, na)
    ELSE IF feature_set = "II-B" THEN
        (inlist(x, static) \/ contains(q100, x)) /\ ~startswith(x, na)
    ELSE IF feature_set = "III-A" THEN startswith(x, na)
    ELSE IF feature_set = "III-B" THEN checkIIIB(x)
    ELSE checkAll(x)

----------------------------------------------------------------------------
(* Bounded filename space: concatenations of at most MaxFrags fragments *)

Fragments ==
    {na, q100, npy, aa_npy, cn_npy, jc_npy, pa_npy, <<"n">>, <<"a">>, <<"x">>,
     <<"_", "q", "1", "0">>}

RECURSIVE Concat(_)
Concat(s) == IF s = <<>> THEN <<>> ELSE Head(s) \o Concat(Tail(s))

Names == UNION {{Concat(s) : s \in [1..k -> Fragments]} : k \in 1..MaxFrags}

----------------------------------------------------------------------------
(* The filesystem *)

\* np.arange(1, 31)
FirstNetwork == 1
StopNetwork == 31
\* a file of features/: its name and the length of the array it holds
File(name, len) == [name |-> name, len |-> len]

\* the file as it lies in the features/ of network
In(network, file) == [network |-> network, name |-> file.name, len |-> file.len]

EmptyDisk ==
    [root    |-> {},                      \* networks whose directory exists
     props   |-> {},                      \* networks whose properties/ exists
     feat    |-> {},                      \* networks whose features/ exists
     files   |-> {},                      \* the files of the features/ directories
     samples |-> {},                      \* networks whose samples.pkl exists
     arts    |-> {}]                      \* the result artifacts: path and text

\* f'{network:02}'
Pad2(network) ==
    IF network < 10 THEN <<0, network>> ELSE <<network \div 10, network % 10>>

filepath_out_without_network(network, feature_set, clf) ==
    [dir  |-> <<"data", "s1620444", "properties">>,
     name |-> <<feature_set, "_", clf, ".float">>]

\* os.path.join(directory_out, f'{feature_set}_{clf}.float')
filepath_out(network, feature_set, clf) ==
    [dir  |-> <<"data", "s1620444", Pad2(network), "properties">>,
     name |-> <<feature_set, "_", clf, ".float">>]

isfile(d, path) == \E a \in d.arts : a.path = path

\* os.makedirs(directory, exist_ok=True); os.makedirs(directory_out, exist_ok=True)
makedirs(d, network) ==
    [d EXCEPT !.root = @ \cup {network}, !.props = @ \cup {network}]

\* str(auc): the decimal text of the score
str(auc) == <<"text", auc>>

\* open(filepath_out, 'w'); file.write(str(auc))
write(d, path, auc) ==
    [d EXCEPT !.arts = {a \in @ : a.path # path} \cup {[path |-> path, text |-> str(auc)]}]

----------------------------------------------------------------------------
(* predict *)

Classifiers == {"LogisticRegression", "RandomForest", "XGBoost"}

\* the score of one fitted model: a function of the data and of what is fitted
Auc(network, cols, clf, random_state) ==
    [network |-> network, cols |-> cols, clf |-> clf, random_state |-> random_state]

NoAuc == Auc(0, {}, "", 0)

\* n_jobs as the classifier is given it
EffectiveJobs(clf, n_jobs) ==
    IF clf = "LogisticRegression" THEN n_jobs
    ELSE IF n_jobs < 0 THEN 100 ELSE n_jobs

Raise(kind) == [kind |-> kind, auc |-> NoAuc, jobs |-> 0]

ReturnNone == [kind |-> "None", auc |-> NoAuc, jobs |-> 0]

\* the filenames of features/ that check accepts
Selected(d, network, feature_set) ==
    {f \in d.files : f.network = network /\ check(feature_set, f.name)}

\* lines 65-104: the matrix of the selected arrays, the split, the fit and the
\* score.  Arrays of unequal length make the DataFrame raise, and a matrix whose
\* rows are not those of the labels (no selected array gives no rows) makes
\* train_test_split raise; the classifier is looked at after that.
Evaluate(selected, network, clf, random_state, n_jobs) ==
    IF {f.len : f \in selected} # {NumSamples} THEN Raise("ValueError")
    ELSE IF clf \notin Classifiers THEN Raise("Exception")
    ELSE [kind |-> "auc",
          auc  |-> Auc(network, {f.name : f \in selected}, clf, random_state),
          jobs |-> EffectiveJobs(clf, n_jobs)]

predict_no_feature_check(d, network, feature_set, clf, random_state, n_jobs) ==
    IF NotRecognized(feature_set) THEN Raise("Exception")
    ELSE IF network \notin d.root THEN Raise("AssertionError")
    ELSE IF network \notin d.samples THEN Raise("AssertionError")
    ELSE Evaluate(Selected(d, network, feature_set), network, clf, random_state, n_jobs)

predict_feature_set_late(d, network, feature_set, clf, random_state, n_jobs) ==
    IF network \notin d.root THEN Raise("AssertionError")
    ELSE IF network \notin d.feat THEN ReturnNone
    ELSE IF network \notin d.samples THEN Raise("AssertionError")
    ELSE IF NotRecognized(feature_set) THEN Raise("Exception")
    ELSE Evaluate(Selected(d, network, feature_set), network, clf, random_state, n_jobs)

\* predict(directory, feature_set, clf, random_state, n_jobs), directory being
\* the directory of `network`.  The result is an AUC, None or the exception raised.
predict(d, network, feature_set, clf, random_state, n_jobs) ==
    IF NotRecognized(feature_set) THEN Raise("Exception")
    ELSE IF network \notin d.root THEN Raise("AssertionError")
    ELSE IF network \notin d.feat THEN ReturnNone
    ELSE IF network \notin d.samples THEN Raise("AssertionError")
    ELSE Evaluate(Selected(d, network, feature_set), network, clf, random_state, n_jobs)

Raised(kind) == kind \in {"Exception", "AssertionError", "ValueError"}

----------------------------------------------------------------------------
(* single *)

\* what one call of single did
Call(d, network, clf, feature_set, random_state, n_jobs, outcome, predicted, r) ==
    [network      |-> network,
     clf          |-> clf,
     feature_set  |-> feature_set,
     random_state |-> random_state,
     n_jobs       |-> n_jobs,
     path         |-> filepath_out(network, feature_set, clf),
     rootBefore   |-> network \in d.root,
     featBefore   |-> network \in d.feat,
     sampBefore   |-> network \in d.samples,
     outcome      |-> outcome,      \* "cached", "None", "written" or the exception
     predicted    |-> predicted,    \* predict was invoked
     auc          |-> r.auc,
     jobs         |-> r.jobs]

single_always_write(d, network, clf, feature_set, random_state, n_jobs) ==
    LET d1   == makedirs(d, network)
        path == filepath_out(network, feature_set, clf)
    IN  CHOOSE result \in
               {IF Raised(r.kind) THEN
                    [disk |-> d1,
                     call |-> Call(d, network, clf, feature_set, random_state, n_jobs,
                                   r.kind, TRUE, r)]
                ELSE IF r.kind = "None" THEN
                    [disk |-> d1,
                     call |-> Call(d, network, clf, feature_set, random_state, n_jobs,
                                   "None", TRUE, r)]
                ELSE
                    [disk |-> write(d1, path, r.auc),
                     call |-> Call(d, network, clf, feature_set, random_state, n_jobs,
                                   "written", TRUE, r)] :
                  r \in {predict(d1, network, feature_set, clf, random_state, n_jobs)}} : TRUE

\* single(network, clf, feature_set, random_state, n_jobs): the filesystem it
\* leaves and what it did
single(d, network, clf, feature_set, random_state, n_jobs) ==
    LET d1   == makedirs(d, network)
        path == filepath_out(network, feature_set, clf)
    IN  IF isfile(d1, path) THEN
            [disk |-> d1,
             call |-> Call(d, network, clf, feature_set, random_state, n_jobs,
                           "cached", FALSE, ReturnNone)]
        ELSE CHOOSE result \in
               {IF Raised(r.kind) THEN
                    [disk |-> d1,
                     call |-> Call(d, network, clf, feature_set, random_state, n_jobs,
                                   r.kind, TRUE, r)]
                ELSE IF r.kind = "None" THEN
                    [disk |-> d1,
                     call |-> Call(d, network, clf, feature_set, random_state, n_jobs,
                                   "None", TRUE, r)]
                ELSE
                    [disk |-> write(d1, path, r.auc),
                     call |-> Call(d, network, clf, feature_set, random_state, n_jobs,
                                   "written", TRUE, r)] :
                  r \in {predict(d1, network, feature_set, clf, random_state, n_jobs)}} : TRUE

\* the defaults of single's parameters
DefaultClf == "LogisticRegression"
DefaultFeatureSet == "II-A"
DefaultRandomState == 42
DefaultNJobs == -1

----------------------------------------------------------------------------
(* single_all_features *)

\* the loop of single_all_features from feature_sets[k] on, until a call of
\* single raises; calls are the calls made so far
RECURSIVE RunFeatureSets(_, _, _, _, _, _, _)
RunFeatureSets(d, network, clf, random_state, n_jobs, k, calls) ==
    IF k > Len(FeatureSets) THEN [disk |-> d, calls |-> calls, outcome |-> "returned"]
    ELSE CHOOSE result \in
           {IF Raised(s.call.outcome)
            THEN [disk |-> s.disk, calls |-> Append(calls, s.call),
                  outcome |-> s.call.outcome]
            ELSE RunFeatureSets(s.disk, network, clf, random_state, n_jobs, k + 1,
                                Append(calls, s.call)) :
              s \in {single(d, network, DefaultClf, FeatureSets[k],
                            DefaultRandomState, DefaultNJobs)}} : TRUE

\* single_all_features(network, clf, random_state, n_jobs): it calls
\* single(network=network, feature_set=f) for each of the six feature sets
single_all_features(d, network, clf, random_state, n_jobs) ==
    RunFeatureSets(d, network, clf, random_state, n_jobs, 1, <<>>)

----------------------------------------------------------------------------
(* The data a network directory may hold *)

\* the arrays of the scenario: a static feature and a node-activity feature
LayoutScenario == {File(aa_npy, NumSamples), File(na_x_npy, NumSamples)}

\* arrays for every feature set
LayoutFull ==
    {File(aa_npy, NumSamples), File(x_q100_npy, NumSamples),
     File(na_x_npy, NumSamples), File(na_q100_npy, NumSamples)}

\* static arrays of unequal length
LayoutMisaligned ==
    {File(aa_npy, NumSamples), File(cn_npy, NumSamples - 1),
     File(na_q100_npy, NumSamples)}

Layouts == {LayoutScenario, LayoutFull, LayoutMisaligned}

NoCmd == [cmd |-> "none"]

NoIter == [i |-> 0, f |-> 0]

----------------------------------------------------------------------------
(* Specification SpecSel: the predicate applied to a filename *)

InitSel ==
    /\ disk = EmptyDisk
    /\ disk0 = EmptyDisk
    /\ pc = "select"
    /\ args \in [feature_set : {FeatureSets[i] : i \in 1..Len(FeatureSets)} \cup {"bogus"},
                 x : Names]
    /\ log = <<>>
    /\ last = NoCmd
    /\ units = <<>>
    /\ npredict = 0
    /\ iter = NoIter

\* lines 31-55, and check(f.name) of lines 67 and 71
ApplyCheck ==
    /\ pc = "select"
    /\ pc' = "done"
    /\ last' = [cmd    |-> "check",
                raised |-> NotRecognized(args.feature_set),
                value  |-> IF NotRecognized(args.feature_set) THEN FALSE
                           ELSE check(args.feature_set, args.x)]
    /\ UNCHANGED <<disk, args, log, units, disk0, npredict, iter>>

NextSel == ApplyCheck

SpecSel == InitSel /\ [][NextSel]_vars

----------------------------------------------------------------------------
(* Specification SpecSingle: the commands single and single_all_features,  *)
(* run again and again with one argument vector while the data appears     *)

Tunings == {[random_state |-> DefaultRandomState, n_jobs |-> DefaultNJobs],
            [random_state |-> 7, n_jobs |-> 4]}

SingleArgs ==
    {[network |-> n, clf |-> c, feature_set |-> f,
      random_state |-> t.random_state, n_jobs |-> t.n_jobs] :
        n \in {4, 18},
        c \in Classifiers \cup {"SVM"},
        f \in {FeatureSets[i] : i \in 1..Len(FeatureSets)} \cup {"bogus"},
        t \in Tunings}

ArgPath == filepath_out(args.network, args.feature_set, args.clf)

InitSingle ==
    /\ disk = EmptyDisk
    /\ disk0 = EmptyDisk
    /\ pc = "idle"
    /\ args \in SingleArgs
    /\ log = <<>>
    /\ last = NoCmd
    /\ units = <<>>
    /\ npredict = 0
    /\ iter = NoIter

\* the feature extraction puts features/ in place
EnvFeatures ==
    /\ pc = "idle"
    /\ args.network \notin disk.feat
    /\ \E layout \in Layouts :
         disk' = [disk EXCEPT !.root = @ \cup {args.network},
                              !.feat = @ \cup {args.network},
                              !.files = @ \cup {In(args.network, f) : f \in layout}]
    /\ UNCHANGED <<pc, args, log, last, units, disk0, npredict, iter>>

\* the feature extraction puts samples.pkl in place
EnvSamples ==
    /\ pc = "idle"
    /\ args.network \notin disk.samples
    /\ disk' = [disk EXCEPT !.root = @ \cup {args.network},
                            !.samples = @ \cup {args.network}]
    /\ UNCHANGED <<pc, args, log, last, units, disk0, npredict, iter>>

\* the command single
Single ==
    /\ pc = "idle"
    /\ npredict < MaxPredict
    /\ \E s \in {single(disk, args.network, args.clf, args.feature_set,
                          args.random_state, args.n_jobs)} :
           /\ disk' = s.disk
           /\ last' = [cmd |-> "single", calls |-> <<s.call>>,
                       outcome |-> IF Raised(s.call.outcome) THEN s.call.outcome
                                   ELSE "returned",
                       prev |-> IF last.cmd = "single" THEN last.calls[1].outcome
                                ELSE "none"]
           /\ npredict' = IF s.call.predicted THEN npredict + 1 ELSE npredict
    /\ UNCHANGED <<pc, args, log, units, disk0, iter>>

\* the command single_all_features
SingleAllFeatures ==
    /\ pc = "idle"
    /\ npredict < MaxPredict
    /\ \E s \in {single_all_features(disk, args.network, args.clf,
                                       args.random_state, args.n_jobs)} :
           /\ disk' = s.disk
           /\ last' = [cmd |-> "single_all_features", calls |-> s.calls,
                       outcome |-> s.outcome, prev |-> "none"]
           /\ npredict' = npredict + Cardinality(
                  {i \in 1..Len(s.calls) :
                      s.calls[i].predicted /\ s.calls[i].path = ArgPath})
    /\ UNCHANGED <<pc, args, log, units, disk0, iter>>

NextSingle == EnvFeatures \/ EnvSamples \/ Single \/ SingleAllFeatures

SpecSingle == InitSingle /\ [][NextSingle]_vars

----------------------------------------------------------------------------
(* The predicates of section 4.1, character by character *)

RefStatic(x) == x \in {aa_npy, cn_npy, jc_npy, pa_npy}

RefPrefixed(x) == Len(x) >= 2 /\ x[1] = "n" /\ x[2] = "a"

RefQ100(x) ==
    \E i \in 1..Len(x) :
        /\ i + 4 <= Len(x)
        /\ \A k \in 1..5 : x[i + k - 1] = q100[k]

Reference(feature_set, x) ==
    CASE feature_set = "I" -> RefStatic(x)
      [] feature_set = "II-A" -> ~RefPrefixed(x)
      [] feature_set = "II-B" -> (RefStatic(x) \/ RefQ100(x)) /\ ~RefPrefixed(x)
      [] feature_set = "III-A" -> RefPrefixed(x)
      [] feature_set = "III-B" -> RefPrefixed(x) /\ RefQ100(x)
      [] feature_set = "I+II-A+III-A" -> TRUE

\* C10: for each of the six feature sets the predicate built by predict returns,
\* for the filename it is applied to, a boolean equal to the reference value of
\* section 4.1; the combined set accepts every filename; a filename is accepted
\* by exactly one of II-A and III-A; what I accepts II-B accepts, what II-B
\* accepts II-A accepts, and what III-B accepts III-A accepts.
C10_PredicateIsReference ==
    (last.cmd = "check" /\ ~NotRecognized(args.feature_set)) =>
        /\ ~last.raised
        /\ last.value \in BOOLEAN
        /\ last.value = Reference(args.feature_set, args.x)
        /\ (args.feature_set = "I+II-A+III-A") => last.value
        /\ (args.feature_set = "II-A") => (last.value # check("III-A", args.x))
        /\ (args.feature_set = "I" /\ last.value) => check("II-B", args.x)
        /\ (args.feature_set = "II-B" /\ last.value) => check("II-A", args.x)
        /\ (args.feature_set = "III-B" /\ last.value) => check("III-A", args.x)

\* II-B has accepted a quantile-100 file that is not a static one, and III-B
\* has rejected a quantile-100 file that is not a node-activity one
C10_Witness ==
    /\ last.cmd = "check"
    /\ args.x = <<"x">> \o q100
    /\ \/ args.feature_set = "II-B" /\ last.value
       \/ args.feature_set = "III-B" /\ ~last.value

\* C1: an artifact, once present, stays with its content; while the artifact of
\* the key under study exists no command invokes predict for that key; and the
\* step that creates it invokes predict for it exactly once.
C1_ArtifactShortCircuits ==
    [][ /\ \A a \in disk.arts : a \in disk'.arts
        /\ isfile(disk, ArgPath) => npredict' = npredict
        /\ (~isfile(disk, ArgPath) /\ isfile(disk', ArgPath)) => npredict' = npredict + 1
      ]_vars

\* single has run twice on one key: the first call evaluated and wrote the
\* artifact, the second found it and skipped
C1_Witness ==
    /\ last.cmd = "single"
    /\ last.prev = "written"
    /\ last.calls[1].outcome = "cached"
    /\ ~last.calls[1].predicted
    /\ npredict = 1
    /\ isfile(disk, ArgPath)

\* the arrays that feature_set selects are aligned with the labels
Aligned(d, network, feature_set) ==
    {f.len : f \in Selected(d, network, feature_set)} = {NumSamples}

\* C3: in every call of single that does not find its artifact, predict is
\* invoked; the artifact is written if and only if predict returned an AUC;
\* with features/ absent and a recognized feature set the result is None and
\* no artifact exists afterwards; with features/ and samples.pkl present,
\* aligned arrays and a recognized feature set and classifier the call writes
\* the artifact with the text of the AUC.
C3_NullNotPersistedThenRetried ==
    [][ Single =>
        LET c == last'.calls[1]
        IN  /\ ~isfile(disk, ArgPath) => c.predicted
            /\ (c.outcome = "written") <=> (c.predicted /\ c.auc # NoAuc)
            /\ (c.outcome = "written") <=> (~isfile(disk, ArgPath) /\ isfile(disk', ArgPath))
            /\ (args.network \notin disk.feat /\ ~NotRecognized(args.feature_set)) =>
                   /\ c.outcome = "None"
                   /\ c.predicted
                   /\ ~isfile(disk', ArgPath)
            /\ ( /\ ~isfile(disk, ArgPath)
                 /\ args.network \in disk.feat
                 /\ args.network \in disk.samples
                 /\ Aligned(disk, args.network, args.feature_set)
                 /\ ~NotRecognized(args.feature_set)
                 /\ args.clf \in Classifiers ) =>
                   /\ c.outcome = "written"
                   /\ [path |-> ArgPath,
                       text |-> str(Auc(args.network,
                                        {f.name : f \in Selected(disk, args.network,
                                                                 args.feature_set)},
                                        args.clf, args.random_state))] \in disk'.arts
      ]_vars

\* a call of single got None because features/ was absent, and the next call,
\* with the data in place, wrote the artifact
C3_Witness ==
    /\ last.cmd = "single"
    /\ last.prev = "None"
    /\ last.calls[1].outcome = "written"
    /\ npredict = 2
    /\ isfile(disk, ArgPath)

\* C2: every artifact that single_all_features(network, clf, random_state,
\* n_jobs) creates is keyed by clf and was evaluated with clf, random_state and
\* n_jobs as passed.
C2_ClassifierPassedThrough ==
    (last.cmd = "single_all_features") =>
        \A i \in 1..Len(last.calls) :
            (last.calls[i].outcome = "written") =>
                /\ last.calls[i].path =
                       filepath_out(args.network, last.calls[i].feature_set, args.clf)
                /\ last.calls[i].auc.clf = args.clf
                /\ last.calls[i].auc.random_state = args.random_state
                /\ last.calls[i].jobs = EffectiveJobs(args.clf, args.n_jobs)

\* C9: a call of single with an unrecognized classifier raises the
\* configuration error, whatever the filesystem holds, and writes no artifact.
C9_UnknownClassifierRaises ==
    (last.cmd = "single" /\ args.clf \notin Classifiers) =>
        /\ last.outcome = "Exception"
        /\ ~isfile(disk, ArgPath)

----------------------------------------------------------------------------
(* discrete *)

discrete_ids == <<18, 20, 21, 9, 4, 8, 24, 16, 11, 10>>

\* one entry of the log of a batch driver
Entry(call, caught) ==
    [network     |-> call.network,
     feature_set |-> call.feature_set,
     path        |-> call.path,
     rootBefore  |-> call.rootBefore,
     featBefore  |-> call.featBefore,
     sampBefore  |-> call.sampBefore,
     outcome     |-> call.outcome,
     caught      |-> caught]    \* the except clause printed its diagnostic

try_single_value_errors_only(d, network, feature_set) ==
    CHOOSE result \in
      {[disk       |-> s.disk,
        entry      |-> Entry(s.call, s.call.outcome = "ValueError"),
        propagated |-> Raised(s.call.outcome) /\ s.call.outcome # "ValueError"] :
         s \in {single(d, network, DefaultClf, feature_set, DefaultRandomState,
                       DefaultNJobs)}} : TRUE

\* try: single(network=i, feature_set=f)  except: print(...)
try_single(d, network, feature_set) ==
    CHOOSE result \in
      {[disk       |-> s.disk,
        entry      |-> Entry(s.call, Raised(s.call.outcome)),
        propagated |-> FALSE] :
         s \in {single(d, network, DefaultClf, feature_set, DefaultRandomState,
                       DefaultNJobs)}} : TRUE

\* the data a network directory holds when a batch starts
Populated(network, kind) ==
    CASE kind = "full" ->
           [root |-> {network}, feat |-> {network}, samples |-> {network},
            files |-> {In(network, f) : f \in LayoutFull}]
      [] kind = "scenario" ->
           [root |-> {network}, feat |-> {network}, samples |-> {network},
            files |-> {In(network, f) : f \in LayoutScenario}]
      [] kind = "nosamples" ->
           [root |-> {network}, feat |-> {network}, samples |-> {},
            files |-> {In(network, f) : f \in LayoutFull}]
      [] kind = "rootonly" ->
           [root |-> {network}, feat |-> {}, samples |-> {}, files |-> {}]

Kinds == {"full", "scenario", "nosamples", "rootonly"}

\* the filesystem in which the networks of dom hold data as `kind` says
DiskOf(dom, kind) ==
    [root    |-> UNION {Populated(n, kind[n]).root : n \in dom},
     props   |-> {},
     feat    |-> UNION {Populated(n, kind[n]).feat : n \in dom},
     files   |-> UNION {Populated(n, kind[n]).files : n \in dom},
     samples |-> UNION {Populated(n, kind[n]).samples : n \in dom},
     arts    |-> {}]

\* the filesystems in which at most MaxPopulated networks of ids have a directory
Disks(ids, most, kinds) ==
    UNION {{DiskOf(dom, kind) : kind \in [dom -> kinds]} :
              dom \in {S \in SUBSET ids : Cardinality(S) <= most}}

----------------------------------------------------------------------------
(* Specification SpecDiscrete: one run of the command discrete *)

FeatureSetLists ==
    {FeatureSets, <<"bogus">>, <<"bogus", "I", "III-B">>, <<"II-A", "II-A">>, <<>>}

Range(seq) == {seq[k] : k \in 1..Len(seq)}

InitDiscrete ==
    /\ disk \in Disks(Range(discrete_ids), MaxPopulated, Kinds)
    /\ disk0 = disk
    /\ pc = "discrete"
    /\ args \in [feature_set : FeatureSetLists]
    /\ log = <<>>
    /\ last = NoCmd
    /\ units = <<>>
    /\ npredict = 0
    /\ iter = [i |-> 1, f |-> 1]

\* the position after the body of the inner loop
NextIter(it, nfeatures) ==
    IF it.f < nfeatures THEN [i |-> it.i, f |-> it.f + 1]
    ELSE [i |-> it.i + 1, f |-> 1]

\* one pass of the body of the inner loop
DiscreteCall ==
    /\ pc = "discrete"
    /\ iter.i <= Len(discrete_ids)
    /\ iter.f <= Len(args.feature_set)
    /\ \E t \in {try_single(disk, discrete_ids[iter.i], args.feature_set[iter.f])} :
           /\ disk' = t.disk
           /\ log' = Append(log, t.entry)
           /\ pc' = IF t.propagated THEN "aborted" ELSE pc
           /\ last' = IF t.propagated
                      THEN [cmd |-> "discrete", outcome |-> t.entry.outcome]
                      ELSE last
    /\ iter' = NextIter(iter, Len(args.feature_set))
    /\ UNCHANGED <<args, units, disk0, npredict>>

\* the loops are exhausted
DiscreteReturn ==
    /\ pc = "discrete"
    /\ iter.i > Len(discrete_ids) \/ Len(args.feature_set) = 0
    /\ pc' = "done"
    /\ last' = [cmd |-> "discrete", outcome |-> "returned"]
    /\ UNCHANGED <<disk, args, log, units, disk0, npredict, iter>>

NextDiscrete == DiscreteCall \/ DiscreteReturn

SpecDiscrete == InitDiscrete /\ [][NextDiscrete]_vars

\* the k-th pair of discrete_ids x feature_set, in the order of the loops
PairAt(k, feature_set) ==
    [network     |-> discrete_ids[((k - 1) \div Len(feature_set)) + 1],
     feature_set |-> feature_set[((k - 1) % Len(feature_set)) + 1]]

\* C4: discrete attempts the pairs of the ten networks and the given feature
\* sets in list order, each position once; a call that raises is caught and
\* reported and the next pair is attempted; discrete returns normally after
\* the last pair.
C4_DiscreteAttemptsEveryPair ==
    /\ pc \in {"discrete", "done"}
    /\ Len(log) <= Len(discrete_ids) * Len(args.feature_set)
    /\ \A k \in 1..Len(log) :
         /\ log[k].network = PairAt(k, args.feature_set).network
         /\ log[k].feature_set = PairAt(k, args.feature_set).feature_set
         /\ log[k].caught <=> Raised(log[k].outcome)
    /\ (pc = "done") =>
         /\ Len(log) = Len(discrete_ids) * Len(args.feature_set)
         /\ last = [cmd |-> "discrete", outcome |-> "returned"]

\* discrete has returned after a call in the middle of the batch raised
C4_Witness ==
    /\ pc = "done"
    /\ Len(args.feature_set) = 3
    /\ Len(log) = 30
    /\ \E k \in 2..29 : log[k].caught /\ log[k].outcome = "Exception"
    /\ \E k \in 2..29 : log[k].caught /\ log[k].outcome = "ValueError"
    /\ \E k \in 2..29 : log[k].outcome = "written"

\* C5: a call of single with an unrecognized feature set raises the
\* configuration error whatever the network directory holds, and no artifact
\* exists under its key; discrete catches it and attempts every other pair.
C5_UnknownFeatureSetRaises ==
    /\ \A k \in 1..Len(log) :
         NotRecognized(log[k].feature_set) =>
             /\ log[k].outcome = "Exception"
             /\ log[k].caught
             /\ ~isfile(disk, log[k].path)
    /\ \A a \in disk.arts : ~NotRecognized(a.path.name[1])
    /\ (pc = "done" /\ \E j \in 1..Len(args.feature_set) : NotRecognized(args.feature_set[j])) =>
         /\ Len(log) = Len(discrete_ids) * Len(args.feature_set)
         /\ \A k \in 1..Len(log) :
              ~NotRecognized(log[k].feature_set) => log[k].outcome # "Exception"

\* the unrecognized feature set was met with the directory absent and with
\* features/ and samples.pkl present, and recognized ones were evaluated
C5_Witness ==
    /\ pc = "done"
    /\ \E k \in 1..Len(log) :
         NotRecognized(log[k].feature_set) /\ ~log[k].rootBefore
    /\ \E k \in 1..Len(log) :
         NotRecognized(log[k].feature_set) /\ log[k].featBefore /\ log[k].sampBefore
    /\ \E k \in 1..Len(log) : log[k].outcome = "written"

\* C7: an evaluation, with a recognized feature set, of a network whose
\* directory does not exist fails on the directory assertion, the failure is
\* not caught, and the run aborts there.
C7_MissingRootAborts ==
    \A k \in 1..Len(log) :
        (~log[k].rootBefore /\ ~NotRecognized(log[k].feature_set)) =>
            /\ log[k].outcome = "AssertionError"
            /\ ~log[k].caught
            /\ pc = "aborted"
            /\ k = Len(log)

----------------------------------------------------------------------------
(* all *)

\* network: int = None
NoNetwork == 0
DefaultSeed == 42

Excluded == {5, 15, 17, 26, 27}

\* [network for network in np.arange(1, 31) if network not in [5, 15, 17, 26, 27]]
all_networks(network) ==
    IF network = NoNetwork
    THEN SelectSeq([k \in 1..(StopNetwork - FirstNetwork) |-> FirstNetwork + k - 1],
                   LAMBDA n : n \notin Excluded)
    ELSE <<network>>

Swap(x, i, j) == [x EXCEPT ![i] = x[j], ![j] = x[i]]

\* the exchanges of random.shuffle, from position i down to the second one;
\* the generator seeded by random.seed is a congruential one of state s
RECURSIVE Exchanges(_, _, _)
Exchanges(x, i, s) ==
    IF i < 2 THEN x
    ELSE Exchanges(Swap(x, i, (s % i) + 1), i - 1, (s * 75 + 74) % 65537)

shuffle_keeps_half(seed, networks) ==
    SubSeq(Exchanges(networks, Len(networks), seed % 65537), 1, (Len(networks) + 1) \div 2)

\* random.seed(seed); random.shuffle(networks)
shuffle(seed, networks) == Exchanges(networks, Len(networks), seed % 65537)

\* the order in which all hands the networks to single_all_features
Order(a) ==
    IF a.shuffle THEN shuffle(a.seed, all_networks(a.network))
    ELSE all_networks(a.network)

\* n_jobs == -1 or n_jobs > 1
Concurrent(n_jobs) == n_jobs = -1 \/ n_jobs > 1

\* the processes of ProgressParallel(n_jobs=n_jobs)
Workers(n_jobs) == IF n_jobs = -1 THEN NumCpus ELSE n_jobs

\* the record of the k-th call of single made by a unit
Touch(unit, k, call) ==
    [unit |-> unit, k |-> k, feature_set |-> call.feature_set, path |-> call.path,
     outcome |-> call.outcome]

Touches(unit, calls) == {Touch(unit, k, calls[k]) : k \in 1..Len(calls)}

\* the networks of the sequence, from position k on, run one after the other
\* until single_all_features raises
RECURSIVE RunInOrder(_, _, _, _)
RunInOrder(d, a, networks, k) ==
    IF k > Len(networks) THEN [disk |-> d, outcome |-> "returned"]
    ELSE CHOOSE result \in
           {IF Raised(s.outcome) THEN [disk |-> s.disk, outcome |-> s.outcome]
            ELSE RunInOrder(s.disk, a, networks, k + 1) :
              s \in {single_all_features(d, networks[k], a.clf, a.feature_set,
                                         DefaultNJobs)}} : TRUE

----------------------------------------------------------------------------
(* Specification SpecAll: one run of the command all *)

DataNetworks == {1, 2, 3}

AllArgs ==
    [network : {NoNetwork, 2}, clf : {"RandomForest"}, n_jobs : {-1, 1, 2},
     feature_set : {DefaultFeatureSet}, shuffle : BOOLEAN, seed : {DefaultSeed, 7}]

InitAll ==
    /\ disk \in Disks(DataNetworks, MaxData, {"full", "scenario", "nosamples"})
    /\ disk0 = disk
    /\ pc = "all"
    /\ args \in {a \in AllArgs : a.shuffle \/ a.seed = DefaultSeed}
    /\ log = {}
    /\ last = NoCmd
    /\ units = <<>>
    /\ npredict = 0
    /\ iter = NoIter

\* lines 161-169: the list of networks, shuffled if asked, and the mode
AllBegin ==
    /\ pc = "all"
    /\ units' = [k \in 1..Len(Order(args)) |->
                    [network |-> Order(args)[k], status |-> "queued"]]
    /\ pc' = IF Concurrent(args.n_jobs) THEN "parallel" ELSE "sequential"
    /\ UNCHANGED <<disk, args, log, last, disk0, npredict, iter>>

Count(status) == Cardinality({k \in 1..Len(units) : units[k].status = status})

\* unit u calls single_all_features(network, clf, feature_set)
RunUnit(u) ==
    \E s \in {single_all_features(disk, units[u].network, args.clf, args.feature_set,
                                    DefaultNJobs)} :
        /\ disk' = s.disk
        /\ log' = log \cup Touches(u, s.calls)
        /\ units' = [units EXCEPT ![u].status =
                        IF Raised(s.outcome) THEN "failed" ELSE "done"]

\* lines 175-176: the next pass of the sequential loop
SeqCall ==
    /\ pc = "sequential"
    /\ \E u \in 1..Len(units) :
         /\ units[u].status = "queued"
         /\ \A v \in 1..(u - 1) : units[v].status = "done"
         /\ RunUnit(u)
         /\ pc' = IF units'[u].status = "failed" THEN "aborted"
                  ELSE IF u = Len(units) THEN "done" ELSE pc
         /\ last' = IF units'[u].status = "failed"
                    THEN [cmd |-> "all", outcome |-> "raised"]
                    ELSE IF u = Len(units)
                    THEN [cmd |-> "all", outcome |-> "returned"] ELSE last
    /\ UNCHANGED <<args, disk0, npredict, iter>>

\* lines 170-173: a free worker takes the next unit
ParStart ==
    /\ pc = "parallel"
    /\ Count("running") < Workers(args.n_jobs)
    /\ \E u \in 1..Len(units) :
         /\ units[u].status = "queued"
         /\ \A v \in 1..(u - 1) : units[v].status # "queued"
         /\ units' = [units EXCEPT ![u].status = "running"]
    /\ UNCHANGED <<disk, pc, args, log, last, disk0, npredict, iter>>

\* a worker runs its unit; a unit that raises makes the executor abort
ParRun ==
    /\ pc \in {"parallel", "aborting"}
    /\ \E u \in 1..Len(units) :
         /\ units[u].status = "running"
         /\ RunUnit(u)
         /\ pc' = IF units'[u].status = "failed" THEN "aborting"
                  ELSE IF \A v \in 1..Len(units) : units'[v].status = "done"
                  THEN "done" ELSE pc
         /\ last' = IF pc' = "done" THEN [cmd |-> "all", outcome |-> "returned"]
                    ELSE last
    /\ UNCHANGED <<args, disk0, npredict, iter>>

\* the executor ends the workers and the exception reaches the caller
ParRaise ==
    /\ pc = "aborting"
    /\ pc' = "aborted"
    /\ last' = [cmd |-> "all", outcome |-> "raised"]
    /\ UNCHANGED <<disk, args, log, units, disk0, npredict, iter>>

NextAll == AllBegin \/ SeqCall \/ ParStart \/ ParRun \/ ParRaise

SpecAll == InitAll /\ [][NextAll]_vars

\* C8: within a run of all no output path is checked or written by two calls
\* of single: not by two units, and not twice by one unit.
C8_PathsNeverShared ==
    Cardinality({a.path : a \in log}) = Cardinality(log)

\* two units of a concurrent run have written artifacts
C8_Witness ==
    /\ Concurrent(args.n_jobs)
    /\ \E a \in log : \E b \in log :
         /\ a.unit # b.unit
         /\ a.outcome = "written"
         /\ b.outcome = "written"
         /\ a.feature_set = b.feature_set

====
